---- MODULE Spec2Model ----
(***************************************************************************)
(* A model of the SIF document loader (src/src/load_sif.js, with its       *)
(* earlier draft src/src/load-sif.js): the timestamp parser parseTime as   *)
(* a step machine over its scan loop, and the recursive document parser    *)
(* (parseCanvas, parseCanvasDefs, parseValueNode, parseValue) as operators *)
(* over a tag-event stream, a reference registry and an object heap.       *)
(*                                                                         *)
(* Text is a sequence of one-character strings.  A JavaScript number is a  *)
(* pair <<n, d>>: the rational n/d in lowest terms with d > 0, or NaN,     *)
(* which is <<0, 0>>.  Arithmetic is exact; the rounding of IEEE doubles   *)
(* is not modelled.                                                        *)
(***************************************************************************)
EXTENDS Integers, Sequences, FiniteSets, TLC

VARIABLES tin, tfps, stamp, fps, pos, value, passes, tpc, tret, terr, call, parsed

\* the state of a call of parseTime: its arguments tin and tfps, its locals
\* stamp, fps, pos and value, the number of passes its loop has made, where
\* it stands (tpc), what it returned (tret) and whether it threw (terr)
tvars == <<tin, tfps, stamp, fps, pos, value, passes, tpc, tret, terr>>

\* a call into the document parser and the state it left the parser in
dvars == <<call, parsed>>

vars == <<tvars, dvars>>

(***************************************************************************)
(* Bounds of the model.                                                    *)
(***************************************************************************)
\* longest time string enumerated exhaustively over TimeAlphabet
MaxStampLen == 4

(***************************************************************************)
(* JavaScript numbers.                                                     *)
(***************************************************************************)
NaN == <<0, 0>>

Abs(n) == IF n < 0 THEN -n ELSE n

RECURSIVE GCD(_, _)
GCD(a, b) == IF b = 0 THEN a ELSE GCD(b, a % b)

\* the number n/d (d # 0) in lowest terms
Rat(n, d) ==
  LET g == GCD(Abs(n), Abs(d))
      s == IF d < 0 THEN -1 ELSE 1
  IN  <<(s * n) \div g, (s * d) \div g>>

Num(n) == <<n, 1>>

IsNaN(a) == a[2] = 0

RAdd(a, b) == IF IsNaN(a) \/ IsNaN(b) THEN NaN ELSE Rat(a[1] * b[2] + b[1] * a[2], a[2] * b[2])

RMul(a, b) == IF IsNaN(a) \/ IsNaN(b) THEN NaN ELSE Rat(a[1] * b[1], a[2] * b[2])

\* a / b; the callers divide by a truthy (non-zero, non-NaN) number only
RDiv(a, b) == IF IsNaN(a) \/ IsNaN(b) \/ b[1] = 0 THEN NaN ELSE Rat(a[1] * b[2], a[2] * b[1])

\* a < b: false when either side is NaN
RLess(a, b) == ~IsNaN(a) /\ ~IsNaN(b) /\ a[1] * b[2] < b[1] * a[2]

\* JavaScript truthiness of a number: 0 and NaN are falsy
Truthy(a) == ~IsNaN(a) /\ a[1] # 0

\* a || 0
OrZero(a) == IF Truthy(a) THEN a ELSE Num(0)

(***************************************************************************)
(* Text.                                                                   *)
(***************************************************************************)
Digits == {"0", "1", "2", "3", "4", "5", "6", "7", "8", "9"}

DigitVal(c) ==
  CASE c = "0" -> 0 [] c = "1" -> 1 [] c = "2" -> 2 [] c = "3" -> 3 [] c = "4" -> 4
    [] c = "5" -> 5 [] c = "6" -> 6 [] c = "7" -> 7 [] c = "8" -> 8 [] c = "9" -> 9

RECURSIVE Pow10(_)
Pow10(n) == IF n = 0 THEN 1 ELSE 10 * Pow10(n - 1)

\* the value of a sequence of digits; 0 for the empty sequence
RECURSIVE DigitsToNat(_)
DigitsToNat(s) ==
  IF s = <<>> THEN 0 ELSE 10 * DigitsToNat(SubSeq(s, 1, Len(s) - 1)) + DigitVal(s[Len(s)])

\* how many digits s holds from the 0-based position p on
RECURSIVE CountDigits(_, _)
CountDigits(s, p) ==
  IF p < Len(s) /\ s[p + 1] \in Digits THEN 1 + CountDigits(s, p + 1) ELSE 0

\* s.substr(p): s from the 0-based position p on
Substr(s, p) == SubSeq(s, p + 1, Len(s))

\* s.indexOf(c): the 0-based position of the first c in s, or -1
IndexOf(s, c) ==
  IF \E i \in 1..Len(s) : s[i] = c
  THEN (CHOOSE i \in 1..Len(s) : s[i] = c /\ \A j \in 1..(i - 1) : s[j] # c) - 1
  ELSE -1

\* s.split(c): the fields of s between the occurrences of c; one field for ""
RECURSIVE Split(_, _)
Split(s, c) ==
  LET i == IndexOf(s, c)
  IN  IF i < 0 THEN <<s>> ELSE <<SubSeq(s, 1, i)>> \o Split(Substr(s, i + 1), c)

\* c.toLowerCase() on the letters the model's alphabets hold
LowerChar(c) ==
  CASE c = "H" -> "h" [] c = "M" -> "m" [] c = "S" -> "s" [] c = "F" -> "f"
    [] c = "O" -> "o" [] c = "T" -> "t" [] c = "B" -> "b" [] c = "E" -> "e"
    [] OTHER -> c

ToLowerCase(s) == [i \in 1..Len(s) |-> LowerChar(s[i])]

RECURSIVE TrimLeft(_)
TrimLeft(s) == IF s # <<>> /\ s[1] = " " THEN TrimLeft(Tail(s)) ELSE s

RECURSIVE TrimRight(_)
TrimRight(s) ==
  IF s # <<>> /\ s[Len(s)] = " " THEN TrimRight(SubSeq(s, 1, Len(s) - 1)) ELSE s

\* the decimal literal ip.fp (digit sequences, not both empty) with a sign
Decimal(neg, ip, fp) ==
  LET m == Rat(DigitsToNat(ip) * Pow10(Len(fp)) + DigitsToNat(fp), Pow10(Len(fp)))
  IN  IF neg THEN <<-m[1], m[2]>> ELSE m

\* the literal t with sg sign characters, a digits, dt dots and b digits
NumberOfParts(t, sg, a, dt, b) ==
  IF sg + a + dt + b = Len(t) /\ a + b > 0
  THEN Decimal(sg = 1 /\ t[1] = "-", SubSeq(t, sg + 1, sg + a),
               SubSeq(t, sg + a + dt + 1, sg + a + dt + b))
  ELSE NaN

\* behind the sign and a digits: a dot, if there is one, and the digits behind
NumberOfFraction(t, sg, a, dt) == NumberOfParts(t, sg, a, dt, CountDigits(t, sg + a + dt))

NumberOfDigits(t, sg, a) ==
  NumberOfFraction(t, sg, a, IF sg + a < Len(t) /\ t[sg + a + 1] = "." THEN 1 ELSE 0)

NumberOfSigned(t, sg) == NumberOfDigits(t, sg, CountDigits(t, sg))

\* Number of a text without white space around it
NumberOfTrimmed(t) ==
  IF t = <<>> THEN Num(0) ELSE NumberOfSigned(t, IF t[1] \in {"-", "+"} THEN 1 ELSE 0)

\* Number(s), the unary +s: the whole trimmed text must be a decimal literal
\* (sign, digits, at most one '.', at least one digit); "" is 0; anything
\* else is NaN.  Exponents, hex literals and Infinity need letters that the
\* model's alphabets leave out.
ToNumber(s) == NumberOfTrimmed(TrimRight(TrimLeft(s)))

(***************************************************************************)
(* parseTime: src/src/load_sif.js 481-547 (the same text as                *)
(* src/src/load-sif.js 207-273).                                           *)
(***************************************************************************)
\* -32767.0*512.0 and 32767.0*512.0
StartOfTime == Num(-(32767 * 512))

EndOfTime == Num(32767 * 512)

\* the length of /-?\d*\.?\d*/.exec(stamp.substr(pos))[0]: every part of the
\* pattern is optional, so it matches at index 0 and is never null
MatchLength(s, p) ==
  LET a == IF p < Len(s) /\ s[p + 1] = "-" THEN p + 1 ELSE p
      b == a + CountDigits(s, a)
      c == IF b < Len(s) /\ s[b + 1] = "." THEN b + 1 ELSE b
      d == c + CountDigits(s, c)
  IN  d - p

\* the string is exhausted after a numeric run: no unit code
NoUnitValue(amount, f, v) ==
  IF amount # Num(0)
  THEN IF Truthy(f) THEN RAdd(v, RDiv(amount, f)) ELSE RAdd(v, amount)
  ELSE v

UnitValue_MinutesAsHours(code, amount, f, v) ==
  CASE code = "h" -> RAdd(v, RMul(amount, Num(3600)))
    [] code = "m" -> RAdd(v, RMul(amount, Num(3600)))
    [] code = "s" -> RAdd(v, amount)
    [] code = "f" -> IF Truthy(f) THEN RAdd(v, RDiv(amount, f)) ELSE v

\* the unit codes h, m, s and f
UnitValue(code, amount, f, v) ==
  CASE code = "h" -> RAdd(v, RMul(amount, Num(3600)))
    [] code = "m" -> RAdd(v, RMul(amount, Num(60)))
    [] code = "s" -> RAdd(v, amount)
    [] code = "f" -> IF Truthy(f) THEN RAdd(v, RDiv(amount, f)) ELSE v

ColonParts_FractionOfSecond(parts) == parts

\* parts after the '.' of the seconds field is split off and pushed
ColonParts(parts) ==
  LET dot == IndexOf(parts[3], ".")
  IN  IF dot >= 0
      THEN [parts EXCEPT ![3] = SubSeq(parts[3], 1, dot)] \o <<Substr(parts[3], dot + 1)>>
      ELSE parts

\* the code ':' with at least 3 fields: the value is assigned, not added to
ColonSum(parts, f) ==
  RAdd(RAdd(RAdd(RMul(OrZero(ToNumber(parts[1])), Num(3600)),
                 RMul(OrZero(ToNumber(parts[2])), Num(60))),
            OrZero(ToNumber(parts[3]))),
       IF Len(parts) >= 4 /\ Truthy(f) THEN RDiv(OrZero(ToNumber(parts[4])), f) ELSE Num(0))

ColonValue(parts0, f) == ColonSum(ColonParts(parts0), f)

NextPos_Stay(p) == p

\* the ++pos of the for statement
NextPos(p) == p + 1

\* the pass goes on to the next: ++pos
IterGoOn(q, w) == [done |-> FALSE, err |-> FALSE, pos |-> NextPos(q), value |-> w]

\* the pass returns
IterReturn(q, w) == [done |-> TRUE, err |-> FALSE, pos |-> q, value |-> w]

\* lines 499-544: the pass behind the match, which ended at q and gave amount
IterAfterMatch(s, f, q, v, amount) ==
  IF q >= Len(s) THEN IterReturn(q, NoUnitValue(amount, f, v))
  ELSE IF s[q + 1] \in {"h", "m", "s", "f"} THEN IterGoOn(q, UnitValue(s[q + 1], amount, f, v))
  ELSE IF s[q + 1] = ":"
  THEN IF Len(Split(s, ":")) >= 3 THEN IterReturn(q, ColonValue(Split(s, ":"), f))
       ELSE IterGoOn(q, v)
  ELSE IterGoOn(q, RAdd(v, amount))

\* One pass of the loop body from position p with the running value v:
\* done tells whether the pass returned, err whether it threw.  No statement
\* of the body can throw on a string: the match is never null and parts[2]
\* is read only behind the length test.
parseTimeIter(s, f, p, v) ==
  IterAfterMatch(s, f, p + MatchLength(s, p), v,
                 OrZero(ToNumber(SubSeq(s, p + 1, p + MatchLength(s, p)))))

IsSentinel(s) == s \in {<<"s", "o", "t">>, <<"b", "o", "t">>, <<"e", "o", "t">>}

SentinelValue(s) == IF s = <<"e", "o", "t">> THEN EndOfTime ELSE StartOfTime

\* the loop, run to its return: [value, err]
RECURSIVE parseTimeLoop(_, _, _, _)
\* r is what a pass left: the loop returns or goes on
LoopAfterIter(s, f, r) ==
  IF r.done THEN [value |-> r.value, err |-> r.err] ELSE parseTimeLoop(s, f, r.pos, r.value)

parseTimeLoop(s, f, p, v) ==
  IF p >= Len(s) THEN [value |-> v, err |-> FALSE]
  ELSE LoopAfterIter(s, f, parseTimeIter(s, f, p, v))

\* parseTime(stamp, fps) as a function of its arguments
parseTimeLowered(s, f) ==
  IF IsSentinel(s) THEN [value |-> SentinelValue(s), err |-> FALSE]
  ELSE parseTimeLoop(s, f, 0, Num(0))

parseTime(s0, f0) == parseTimeLowered(ToLowerCase(s0), OrZero(f0))

(***************************************************************************)
(* The inputs of parseTime.                                                *)
(***************************************************************************)
TimeAlphabet == {"0", "1", ".", "-", ":", "h", "m", "s", "f", "q", "S"}

RECURSIVE StringsUpTo(_, _)
StringsUpTo(A, n) ==
  IF n = 0 THEN {<<>>}
  ELSE LET shorter == StringsUpTo(A, n - 1)
       IN  shorter \cup {Append(s, c) : s \in shorter, c \in A}

\* the fields of the colon notation: empty, whole, fractional, signed, bad
ColonFields == {<<>>, <<"1">>, <<"3", "0">>, <<"1", ".", "5">>, <<"-", "2">>, <<"1", "h">>}

ColonStamps ==
  {a \o <<":">> \o b \o <<":">> \o c : a \in ColonFields, b \in ColonFields, c \in ColonFields}
  \cup {a \o <<":">> \o b \o <<":">> \o c \o <<":">> \o d :
          a \in {<<>>, <<"1">>}, b \in {<<"1">>, <<"-", "2">>}, c \in ColonFields, d \in ColonFields}

\* the time strings the specification names
NamedStamps ==
  { <<"5", "s">>, <<"2", "m", "3", "0", "s">>, <<"1", "h">>, <<"1", "0", "f">>,
    <<"0", "0", ":", "0", "1", ":", "3", "0", ".", "5", "0", "0">>,
    <<"s", "o", "t">>, <<"B", "O", "T">>, <<"e", "o", "t">>,
    <<"1", ".", "5", "h", "2", "f">>, <<"1", "h", "2", ":", "3", ":", "4">> }

Stamps == StringsUpTo(TimeAlphabet, MaxStampLen) \cup ColonStamps \cup NamedStamps

\* fps as the callers pass it: unknown (0, or NaN from parseFloat), or known
FpsValues == {Num(0), NaN, Num(24), Num(25)}

(***************************************************************************)
(* parseTime as a step machine: one action per pass of the loop.           *)
(***************************************************************************)
\* a call parseTime(s, f), lines 482-490: fps || 0, toLowerCase, the
\* sentinels, value = 0, pos = 0
TimeEnter ==
  /\ tpc = "idle"
  /\ \E s \in Stamps, f \in FpsValues :
       /\ tin' = s
       /\ tfps' = f
       /\ stamp' = ToLowerCase(s)
       /\ fps' = OrZero(f)
       /\ IF IsSentinel(ToLowerCase(s))
          THEN tpc' = "done" /\ tret' = SentinelValue(ToLowerCase(s))
          ELSE tpc' = "loop" /\ tret' = tret
  /\ pos' = 0
  /\ value' = Num(0)
  /\ UNCHANGED <<passes, terr, dvars>>

\* lines 491-545: the loop test holds and the body runs once
TimeIter ==
  /\ tpc = "loop"
  /\ pos < Len(stamp)
  /\ passes' = passes + 1
  /\ LET r == parseTimeIter(stamp, fps, pos, value)
     IN  /\ pos' = r.pos
         /\ value' = r.value
         /\ terr' = r.err
         /\ tpc' = IF r.done THEN "done" ELSE "loop"
         /\ tret' = IF r.done /\ ~r.err THEN r.value ELSE tret
  /\ UNCHANGED <<tin, tfps, stamp, fps, dvars>>

\* line 546: the loop test fails
TimeExit ==
  /\ tpc = "loop"
  /\ pos >= Len(stamp)
  /\ tpc' = "done"
  /\ tret' = value
  /\ UNCHANGED <<tin, tfps, stamp, fps, pos, value, passes, terr, dvars>>

TimeNext == TimeEnter \/ TimeIter \/ TimeExit


(***************************************************************************)
(* The document: a stream of tag events, as the tag reader hands them out. *)
(* An attribute is a text or Undefined; every tag carries every attribute  *)
(* name of the model, Undefined where the element does not give it.        *)
(***************************************************************************)
Undefined == <<"undefined">>

\* JavaScript truthiness of an attribute: undefined and "" are falsy
TruthyStr(x) == x # Undefined /\ x # <<>>

\* a number field that was never assigned
NumUndefined == <<0, -1>>

AttrNames ==
  { "guid", "id", "static", "interpolation", "value", "pos", "version", "width", "height",
    "fps", "begin-time", "start-time", "end-time", "view-box", "time", "active", "name",
    "content" }

NoAttrs == [n \in AttrNames |-> Undefined]

OpenTag(name, attrs) == [type |-> "opentag", name |-> name, attributes |-> attrs, text |-> <<>>]

CloseTag(name) == [type |-> "closetag", name |-> name, attributes |-> NoAttrs, text |-> <<>>]

TextNode(t) == [type |-> "text", name |-> "", attributes |-> NoAttrs, text |-> t]

\* what peek gives at the end of the input
EndOfInput == [type |-> "end", name |-> "", attributes |-> NoAttrs, text |-> <<>>]

\* the events of an element; white-space-only text gives no event
Element(name, attrs, content) == <<OpenTag(name, attrs)>> \o content \o <<CloseTag(name)>>

(***************************************************************************)
(* The parser's state, threaded through every function: the tag reader     *)
(* (evs, pos), the reference registry reg (pairs <<id, object>>), the heap *)
(* of canvases and value nodes (an object is its index), the count gen of  *)
(* generated ids, how the call ended (status "ok", "error" with err, or    *)
(* "hang" for a loop that never ends) and what it returned (val).  log is  *)
(* a history of the calls of parseValue, parseValueNode and parseCanvas.    *)
(* draft tells                                                             *)
(* which draft runs, and lenientChild how Canvas.childCanvas answers an    *)
(* undefined parent.  A state that is not "ok" passes through every        *)
(* operator unchanged: the exception unwinds to the caller of loadSif.     *)
(***************************************************************************)
Ok(st) == st.status = "ok"

Throw(st, msg) == IF Ok(st) THEN [st EXCEPT !.status = "error", !.err = msg] ELSE st

Hang(st) == IF Ok(st) THEN [st EXCEPT !.status = "hang"] ELSE st

Ret(st, v) == IF Ok(st) THEN [st EXCEPT !.val = v] ELSE st

Null == [k |-> "null"]

Ref(id) == [k |-> "ref", id |-> id]

(***************************************************************************)
(* The tag reader (xml-pulley), from its interface in the specification.   *)
(***************************************************************************)
Peek(st) == IF st.pos < Len(st.evs) THEN st.evs[st.pos + 1] ELSE EndOfInput

\* pulley.check(type): look at the next event, which must be of this type
check(st, type) ==
  IF ~Ok(st) THEN st
  ELSE IF Peek(st).type # type THEN Throw(st, "pulley: unexpected node") ELSE st

\* pulley.checkName(name, type)
checkName(st, name, type) ==
  IF ~Ok(st) THEN st
  ELSE IF Peek(st).type # type \/ Peek(st).name # name
  THEN Throw(st, "pulley: unexpected node") ELSE st

\* pulley.expect(type): check, and consume the event
expect(st, type) ==
  IF ~Ok(check(st, type)) THEN check(st, type) ELSE [st EXCEPT !.pos = @ + 1]

\* pulley.expectName(name, type)
expectName(st, name, type) ==
  IF ~Ok(checkName(st, name, type)) THEN checkName(st, name, type)
  ELSE [st EXCEPT !.pos = @ + 1]

\* pulley.nextText(): the next event when it is text, else an empty text
\* and nothing consumed; the text is left in val
nextText(st) ==
  IF ~Ok(st) THEN st
  ELSE IF Peek(st).type = "text" THEN [st EXCEPT !.pos = @ + 1, !.val = Peek(st).text]
  ELSE [st EXCEPT !.val = <<>>]

\* the position behind the close tag that matches the open tag at p - 1,
\* depth open tags deep; the length of the input when there is none
RECURSIVE SubtreeEnd(_, _, _)
SubtreeEnd(evs, p, depth) ==
  IF p >= Len(evs) THEN Len(evs)
  ELSE IF evs[p + 1].type = "opentag" THEN SubtreeEnd(evs, p + 1, depth + 1)
  ELSE IF evs[p + 1].type = "closetag"
  THEN IF depth = 1 THEN p + 1 ELSE SubtreeEnd(evs, p + 1, depth - 1)
  ELSE SubtreeEnd(evs, p + 1, depth)

\* pulley.skipTag(): consume the open tag and all up to its close tag
skipTag(st) ==
  IF ~Ok(check(st, "opentag")) THEN check(st, "opentag")
  ELSE [st EXCEPT !.pos = SubtreeEnd(st.evs, st.pos + 1, 1)]

\* pulley.loopTag, its head: consume the open tag, of this name if one is given
loopOpen(st, name) ==
  IF name = "" THEN expect(st, "opentag") ELSE expectName(st, name, "opentag")

(***************************************************************************)
(* The reference registry (guid.js), from the specification, 4.1.  An id   *)
(* is a natural number; the text of a guid attribute is read as one.       *)
(***************************************************************************)
GuidExists(reg, id) == \E e \in reg : e[1] = id

GuidGet(reg, id) == (CHOOSE e \in reg : e[1] = id)[2]

\* set overwrites
GuidSet(reg, id, obj) == {e \in reg : e[1] # id} \cup {<<id, obj>>}

\* the id a guid attribute spells
GuidVal(text) == DigitsToNat(text)

\* bitwise exclusive or
RECURSIVE GuidXor(_, _)
GuidXor(a, b) ==
  IF a = 0 THEN b
  ELSE IF b = 0 THEN a
  ELSE ((a + b) % 2) + 2 * GuidXor(a \div 2, b \div 2)

RECURSIVE Pow2(_)
Pow2(n) == IF n = 0 THEN 1 ELSE 2 * Pow2(n - 1)

\* ids a guid attribute of the model can spell lie below this
AttrGuidLimit == 4

\* the n-th generated id: fresh, and apart from every other id in a bit of
\* its own, as two random 128-bit ids are
GuidGenerate(n) == AttrGuidLimit * Pow2(n)

(***************************************************************************)
(* Canvases and value nodes (types/canvas.js, value_nodes/const.js), from  *)
(* the specification, 3 and 4.5.                                           *)
(***************************************************************************)
NoObject == 0

NoGuid == -1

\* Canvas.create()
CanvasCreate ==
  [ kind |-> "canvas", parent |-> NoObject, linked |-> FALSE, guid |-> NoGuid,
    id |-> Undefined, version |-> Undefined, width |-> NumUndefined,
    height |-> NumUndefined, fps |-> NumUndefined, timeStart |-> NumUndefined,
    timeEnd |-> NumUndefined, viewBox |-> <<>>, name |-> Undefined,
    desc |-> Undefined, author |-> Undefined,
    keyframes |-> <<>>, defs |-> {}, children |-> {}, metadata |-> {} ]

\* VNConst.create(value)
VNConstCreate(v) == [kind |-> "const", value |-> v]

\* a new object on the heap; it is left in val
Alloc(st, obj) ==
  IF ~Ok(st) THEN st
  ELSE [st EXCEPT !.heap = Append(@, obj), !.val = Ref(Len(st.heap) + 1)]

\* Canvas.getRoot(canvas): up the parent links
RECURSIVE CanvasGetRoot(_, _)
CanvasGetRoot(heap, c) ==
  IF heap[c].parent = NoObject THEN c ELSE CanvasGetRoot(heap, heap[c].parent)

\* Canvas.addValueNode(canvas, node, id)
CanvasAddValueNode(st, c, node, id) ==
  [st EXCEPT !.heap[c].defs = {e \in @ : e[1] # id} \cup {<<id, node>>}]

\* Canvas.addKeyframe(canvas, keyframe)
CanvasAddKeyframe(st, c, kf) == [st EXCEPT !.heap[c].keyframes = Append(@, kf)]

(***************************************************************************)
(* parseInt and parseFloat: the longest numeric prefix behind leading      *)
(* white space; NaN when there is none.  The hex prefix of parseInt and    *)
(* the exponent of parseFloat need letters the model's alphabets leave out.*)
(***************************************************************************)
ParseInt(s) ==
  LET t  == TrimLeft(s)
      sg == IF t # <<>> /\ t[1] \in {"-", "+"} THEN 1 ELSE 0
      a  == CountDigits(t, sg)
  IN  IF a = 0 THEN NaN
      ELSE Decimal(sg = 1 /\ t[1] = "-", SubSeq(t, sg + 1, sg + a), <<>>)

ParseFloat(s) ==
  LET t  == TrimLeft(s)
      sg == IF t # <<>> /\ t[1] \in {"-", "+"} THEN 1 ELSE 0
      a  == CountDigits(t, sg)
      dt == IF sg + a < Len(t) /\ t[sg + a + 1] = "." THEN 1 ELSE 0
      b  == CountDigits(t, sg + a + dt)
  IN  IF a + b = 0 THEN NaN
      ELSE Decimal(sg = 1 /\ t[1] = "-", SubSeq(t, sg + 1, sg + a),
                   SubSeq(t, sg + a + dt + 1, sg + a + dt + b))

(***************************************************************************)
(* parseValue and its helpers: src/src/load_sif.js 227-435.                *)
(***************************************************************************)
S_0 == <<"0">>

S_1 == <<"1">>

S_true == <<"t", "r", "u", "e">>

S_false == <<"f", "a", "l", "s", "e">>

S_halt == <<"h", "a", "l", "t">>

S_constant == <<"c", "o", "n", "s", "t", "a", "n", "t">>

S_linear == <<"l", "i", "n", "e", "a", "r">>

S_manual == <<"m", "a", "n", "u", "a", "l">>

S_auto == <<"a", "u", "t", "o">>

S_clamped == <<"c", "l", "a", "m", "p", "e", "d">>

readStatic_AnyTextIsTrue(tag) ==
  LET v == tag.attributes["static"]
  IN  IF v \in {S_0, S_false, Undefined} THEN [err |-> FALSE, val |-> FALSE]
      ELSE [err |-> FALSE, val |-> TRUE]

\* readStatic(tag): err tells that it threw
readStatic(tag) ==
  LET v == tag.attributes["static"]
  IN  IF v \in {S_0, S_false, Undefined} THEN [err |-> FALSE, val |-> FALSE]
      ELSE IF v \in {S_1, S_true} THEN [err |-> FALSE, val |-> TRUE]
      ELSE [err |-> TRUE, val |-> FALSE]

\* readInterpolation(tag): the mode is named as the Interpolation constant
readInterpolation(tag) ==
  LET v == tag.attributes["interpolation"]
  IN  CASE v = S_halt -> [err |-> FALSE, val |-> "HALT"]
        [] v = S_constant -> [err |-> FALSE, val |-> "CONSTANT"]
        [] v = S_linear -> [err |-> FALSE, val |-> "LINEAR"]
        [] v = S_manual -> [err |-> FALSE, val |-> "MANUAL"]
        [] v = S_auto -> [err |-> FALSE, val |-> "TCB"]
        [] v = S_clamped -> [err |-> FALSE, val |-> "CLAMPED"]
        [] v = Undefined -> [err |-> FALSE, val |-> "UNDEFINED"]
        [] OTHER -> [err |-> TRUE, val |-> "UNDEFINED"]

\* ValueBase.create(type): data, static and interpolation not yet set
ValueBaseCreate(type) ==
  [k |-> "value", type |-> type, data |-> [unset |-> TRUE], static |-> FALSE,
   interpolation |-> "UNDEFINED"]

\* parseValueAttribute(pulley): the value attribute of an empty element
parseValueAttribute(st) ==
  LET tag == Peek(st)
      a   == expectName(expect(st, "opentag"), tag.name, "closetag")
  IN  IF ~Ok(a) THEN a
      ELSE IF ~TruthyStr(tag.attributes["value"]) THEN Throw(a, "Error: missing attribute value")
      ELSE Ret(a, tag.attributes["value"])

\* lines 400-402: the tail every variant but list runs through
ValueTail(st, tag, out) ==
  IF ~Ok(st) THEN st
  ELSE IF readStatic(tag).err THEN Throw(st, "Error: Invalid value for static")
  ELSE IF readInterpolation(tag).err THEN Throw(st, "Error: Invalid value for interpolation")
  ELSE Ret(st, [out EXCEPT !.static = readStatic(tag).val,
                           !.interpolation = readInterpolation(tag).val])

\* line 372: the list variant returns out at once
ListTail(st, tag, out) == Ret(st, out)

\* lines 394-402: an unrecognized name breaks out of the switch into the tail
DefaultCase(st, tag, out) == ValueTail(st, tag, out)

\* the entry a call leaves in the history: st0 the state at the call, r at
\* its end, canvas the canvas argument
\* the definitions map of every canvas of a heap
AllDefs(heap) ==
  [c \in 1..Len(heap) |-> IF heap[c].kind = "canvas" THEN heap[c].defs ELSE {}]

LogEntry(fn, st0, r, canvas) ==
  [ fn |-> fn, at |-> st0.pos, name |-> Peek(st0).name, attributes |-> Peek(st0).attributes,
    canvas |-> canvas, end |-> r.pos, status |-> r.status, err |-> r.err,
    ret |-> IF Ok(r) THEN r.val ELSE Null,
    heap0 |-> Len(st0.heap), heap1 |-> Len(r.heap), reg0 |-> st0.reg, reg1 |-> r.reg,
    log0 |-> Len(st0.log), log1 |-> Len(r.log),
    defs0 |-> AllDefs(st0.heap), defs1 |-> AllDefs(r.heap) ]

Logged(fn, st0, r, canvas) == [r EXCEPT !.log = Append(@, LogEntry(fn, st0, r, canvas))]

RECURSIVE parseValue(_, _)
RECURSIVE parseValueBody(_, _)
RECURSIVE LoopVector(_, _, _)
RECURSIVE LoopSegment(_, _, _)
RECURSIVE LoopGradient(_, _, _)
RECURSIVE LoopTransformation(_, _, _)
RECURSIVE LoopList(_, _, _, _)
RECURSIVE parseValueNode(_, _)
RECURSIVE parseCanvas(_, _, _)
RECURSIVE parseCanvasDefs(_, _)
RECURSIVE LoopDefs(_, _, _)
RECURSIVE LoopCanvas(_, _, _)

\* the close tag ends a loopTag: it is consumed and acc is the result
LoopClose(st, acc) == Ret([st EXCEPT !.pos = @ + 1], acc)

\* lines 252-262 and 267-281: the children of a vector (x, y) or of a color
\* (r, g, b, a), each a bare number
LoopVector(st, names, acc) ==
  IF ~Ok(st) THEN st
  ELSE IF Peek(st).type = "closetag" THEN LoopClose(st, acc)
  ELSE LET name == Peek(st).name
           a    == nextText(expect(st, "opentag"))
       IN  IF ~Ok(a) THEN a
           ELSE IF name \notin names THEN Throw(a, "Error: Unexpected element")
           ELSE LoopVector(expectName(a, name, "closetag"), names,
                           [acc EXCEPT ![name] = ParseFloat(a.val)])

\* lines 293-300: col.p1 = value, and so on.  col is a const of the block of
\* case 'color' (line 266); in the block of case 'segment' the name is bound
\* nowhere, so evaluating it throws a ReferenceError
SegmentChild(st, name, acc, v) == Throw(st, "ReferenceError: col is not defined")

\* lines 286-305: the children of a segment
LoopSegment(st, canvas, acc) ==
  IF ~Ok(st) THEN st
  ELSE IF Peek(st).type = "closetag" THEN LoopClose(st, acc)
  ELSE LET name == Peek(st).name
           a    == parseValue(expect(st, "opentag"), canvas)
       IN  IF ~Ok(a) THEN a
           ELSE IF a.val.k = "null" \/ a.val.type # "vector"
           THEN Throw(a, "Error: Expected <vector> in <segment>!")
           ELSE IF name \notin {"p1", "t1", "p2", "t2"}
           THEN Throw(a, "Error: Unexpected element in <segment>")
           ELSE LET b == SegmentChild(a, name, acc, a.val.data)
                IN  IF ~Ok(b) THEN b
                    ELSE LoopSegment(expectName(b, name, "closetag"), canvas, b.val)

\* lines 310-316: the color stops of a gradient
LoopGradient(st, canvas, acc) ==
  IF ~Ok(st) THEN st
  ELSE IF Peek(st).type = "closetag" THEN LoopClose(st, acc)
  ELSE LET tag == Peek(st)
           a   == parseValue(checkName(st, "color", "opentag"), canvas)
       IN  IF ~Ok(a) THEN a
           ELSE IF ~TruthyStr(tag.attributes["pos"])
           THEN Throw(a, "Error: <gradient>'s <color> is missing attribute pos")
           ELSE LoopGradient(a, canvas,
                  Append(acc, [pos |-> ParseFloat(tag.attributes["pos"]), color |-> a.val.data]))

\* the sub-type a child of a transformation must have
TransformationType(name) == IF name \in {"offset", "scale"} THEN "vector" ELSE "angle"

TransformationField(name) == IF name = "skew_angle" THEN "skew" ELSE name

\* lines 337-359: the children of a transformation; value.data is read
\* before the type is compared, so a child that is no value is a TypeError
LoopTransformation(st, canvas, acc) ==
  IF ~Ok(st) THEN st
  ELSE IF Peek(st).type = "closetag" THEN LoopClose(st, acc)
  ELSE LET name == Peek(st).name
           a    == parseValue(expect(st, "opentag"), canvas)
       IN  IF ~Ok(a) THEN a
           ELSE IF name \notin {"offset", "angle", "skew_angle", "scale"}
           THEN Throw(a, "Error: Unexpected element in <transformation>")
           ELSE IF a.val.k = "null" THEN Throw(a, "TypeError: value is undefined")
           ELSE IF a.val.type # TransformationType(name)
           THEN Throw(a, "Error: Expected <transformation>'s child to be of its type")
           ELSE LoopTransformation(expectName(a, name, "closetag"), canvas,
                  [acc EXCEPT ![TransformationField(name)] = a.val.data])

\* lines 364-371: the items of a list.  still tells that the pass before
\* this one consumed nothing; a second such pass repeats the first for ever
LoopList(st, canvas, acc, still) ==
  IF ~Ok(st) THEN st
  ELSE IF Peek(st).type = "closetag" THEN LoopClose(st, acc)
  ELSE LET a == parseValue(check(st, "opentag"), canvas)
       IN  IF ~Ok(a) THEN a
           ELSE IF a.val.k = "null" THEN Throw(a, "Error: Expected list item to be a value")
           ELSE IF a.pos = st.pos /\ still THEN Hang(a)
           ELSE LoopList(a, canvas, Append(acc, a.val), a.pos = st.pos)

\* Vector.create(), Color.create(0), Segment.create(), Transformation.create()
VectorCreate == [x |-> Num(0), y |-> Num(0)]

ColorCreate == [r |-> Num(0), g |-> Num(0), b |-> Num(0), a |-> Num(0)]

SegmentCreate == [p1 |-> VectorCreate, t1 |-> VectorCreate, p2 |-> VectorCreate, t2 |-> VectorCreate]

TransformationCreate ==
  [offset |-> VectorCreate, angle |-> [degrees |-> Num(0)], skew |-> [degrees |-> Num(0)],
   scale |-> VectorCreate]

\* an angle: parseFloat(value) * Math.PI / 180, kept as its number of degrees
Angle(deg) == [degrees |-> deg]

\* the tag names the switch of parseValue has a value case for
LiteralNames ==
  { "real", "time", "integer", "string", "vector", "color", "segment", "gradient", "bool",
    "angle", "degrees", "radians", "rotations", "transformation", "list" }

\* the cases that return nothing: lines 374-393
PlaceholderNames == {"bline_point", "guid", "width_point", "dash_item", "canvas"}

\* out.data = the value a loop of the variant built, then the tail
SetData(a, tag, out) == IF Ok(a) THEN ValueTail(a, tag, [out EXCEPT !.data = a.val]) ELSE a

\* lines 362-372: the list of the items read, returned at once
SetList(a, tag, out) == IF Ok(a) THEN ListTail(a, tag, [out EXCEPT !.data = a.val]) ELSE a

\* lines 227-403
parseValueBody(st0, canvas) ==
  LET st  == check(st0, "opentag")
      tag == Peek(st)
      nm  == tag.name
      out == ValueBaseCreate(nm)
      set(r, d)  == ValueTail(r, tag, [out EXCEPT !.data = d])
      attr       == parseValueAttribute(st)
  IN  IF ~Ok(st) THEN st
      ELSE CASE nm = "real" -> IF Ok(attr) THEN set(attr, ParseFloat(attr.val)) ELSE attr
        [] nm = "time" ->
             IF Ok(attr) THEN set(attr, parseTime(attr.val, NumUndefined).value) ELSE attr
        [] nm = "integer" -> IF Ok(attr) THEN set(attr, ParseInt(attr.val)) ELSE attr
        [] nm = "string" ->
             LET a == nextText(expectName(st, nm, "opentag"))
                 b == expectName(a, nm, "closetag")
             IN  IF Ok(b) THEN set(b, a.val) ELSE b
        [] nm = "vector" ->
             SetData(LoopVector(loopOpen(st, "vector"), {"x", "y"}, VectorCreate), tag, out)
        [] nm = "color" ->
             SetData(LoopVector(loopOpen(st, "color"), {"r", "g", "b", "a"}, ColorCreate),
                     tag, out)
        [] nm = "segment" ->
             SetData(LoopSegment(loopOpen(st, "segment"), canvas, SegmentCreate), tag, out)
        [] nm = "gradient" ->
             SetData(LoopGradient(loopOpen(st, "gradient"), canvas, <<>>), tag, out)
        [] nm = "bool" ->
             IF ~Ok(attr) THEN attr
             ELSE IF attr.val \in {S_true, S_1} THEN set(attr, TRUE)
             ELSE IF attr.val \in {S_false, S_0} THEN set(attr, FALSE)
             ELSE Throw(attr, "Error: Bad value in <bool>!")
        [] nm \in {"angle", "degrees", "radians", "rotations"} ->
             IF Ok(attr) THEN set(attr, Angle(ParseFloat(attr.val))) ELSE attr
        [] nm = "transformation" ->
             SetData(LoopTransformation(loopOpen(st, "transformation"), canvas,
                                        TransformationCreate), tag, out)
        [] nm = "list" ->
             SetList(LoopList(loopOpen(st, ""), canvas, <<>>, FALSE), tag, out)
        [] nm \in PlaceholderNames -> Ret(st, Null)
        [] OTHER -> DefaultCase(st, tag, out)

\* parseValue(pulley, canvas), with its entry in the history
parseValue(st0, canvas) ==
  IF ~Ok(st0) THEN st0 ELSE Logged("parseValue", st0, parseValueBody(st0, canvas), canvas)

(***************************************************************************)
(* The value-node parsers that load_sif.js calls and does not define       *)
(* (parseAnimated, parseStaticList, parseDynamicList and                   *)
(* parseLinkableValueNode), from the specification, 4.4 and 6: each        *)
(* consumes the subtree of its element and returns a node of its kind;     *)
(* the linkable parser returns nothing, and consumes nothing, for a name   *)
(* it does not know.                                                       *)
(***************************************************************************)
StructuralParser(st, kind) == Alloc(skipTag(st), [kind |-> kind, value |-> Null])

LinkableNames == {"linear", "composite"}

parseLinkableValueNode(st, canvas) ==
  IF ~Ok(st) THEN st
  ELSE IF Peek(st).name \in LinkableNames THEN StructuralParser(st, "linkable")
  ELSE Ret(st, Null)

\* lines 197-206: the parser a tag name is mapped to; "" when to none
ParserTable(name) ==
  CASE name \in {"hermite", "animated"} -> "animated"
    [] name = "static_list" -> "static_list"
    [] name \in {"dynamic_list", "bline", "wplist", "dilist", "weighted_average"} -> "dynamic_list"
    [] OTHER -> ""

(***************************************************************************)
(* parseValueNode: src/src/load_sif.js 179-225.                            *)
(***************************************************************************)
VNKnown_Never(st, guid) == FALSE

\* line 185: Guid.exists(guid)
VNKnown(st, guid) == GuidExists(st.reg, guid)

\* lines 196-216: the element is no literal value
VNDispatch(st, canvas) ==
  LET name   == Peek(st).name
      parser == ParserTable(name)
      link   == parseLinkableValueNode(st, canvas)
      inl    == parseCanvas(st, canvas, TRUE)
  IN  IF ~Ok(st) THEN st
      ELSE IF parser # "" THEN StructuralParser(st, parser)
      ELSE IF ~Ok(link) \/ link.val.k # "null" THEN link
      ELSE IF name = "canvas"
      THEN Alloc(inl, VNConstCreate([ValueBaseCreate("canvas") EXCEPT !.data = inl.val]))
      ELSE Throw(st, "Error: Expected value node")

\* line 194: the value of the element, if it is one; v is the state after
\* parseValue.  Lines 195-216: the node
VNWrap(v, canvas) ==
  IF ~Ok(v) THEN v
  ELSE IF v.val.k # "null" THEN Alloc(v, VNConstCreate(v.val))
  ELSE VNDispatch(v, canvas)

\* lines 218-224: node is the state after the node was made; it is filed
\* under its id and registered under its guid
VNRegister(node, tag, canvas, guid) ==
  LET n == node.val.id
      a == IF TruthyStr(tag.attributes["id"])
           THEN CanvasAddValueNode(node, canvas, n, tag.attributes["id"])
           ELSE node
  IN  IF ~Ok(node) THEN node
      ELSE Ret([a EXCEPT !.reg = GuidSet(@, guid, n)], Ref(n))

\* lines 193-224: parse the element, register the node
VNParse(st, canvas, guid) ==
  VNRegister(VNWrap(IF Peek(st).name # "canvas" THEN parseValue(st, canvas) ELSE Ret(st, Null),
                    canvas),
             Peek(st), canvas, guid)

\* the skipped element still enters the definitions of the canvas under its id
VNSkip_AddsId(st, canvas, guid) ==
  IF TruthyStr(Peek(st).attributes["id"])
  THEN Ret(CanvasAddValueNode(skipTag(st), canvas, GuidGet(st.reg, guid),
                              Peek(st).attributes["id"]),
           Ref(GuidGet(st.reg, guid)))
  ELSE Ret(skipTag(st), Ref(GuidGet(st.reg, guid)))

\* lines 186-187: the element is known, skip it and return the registered node
VNSkip(st, canvas, guid) == Ret(skipTag(st), Ref(GuidGet(st.reg, guid)))

parseValueNodeBody(st0, canvas) ==
  LET st   == check(st0, "opentag")
      attr == Peek(st).attributes["guid"]
      root == CanvasGetRoot(st.heap, canvas)
      guid == GuidXor(GuidVal(attr), st.heap[root].guid)
  IN  IF ~Ok(st) THEN st
      ELSE IF TruthyStr(attr) /\ VNKnown(st, guid)
      THEN VNSkip(st, canvas, guid)
      ELSE VNParse(IF TruthyStr(attr) THEN st ELSE [st EXCEPT !.gen = @ + 1], canvas,
                   IF TruthyStr(attr) THEN guid ELSE GuidGenerate(st.gen))

\* parseValueNode(pulley, canvas), with its entry in the history
parseValueNode(st0, canvas) ==
  IF ~Ok(st0) THEN st0
  ELSE Logged("parseValueNode", st0, parseValueNodeBody(st0, canvas), canvas)

\* lines 170-175: one child of defs
DefsChild(st, canvas) ==
  IF ~Ok(check(st, "opentag")) THEN check(st, "opentag")
  ELSE IF Peek(st).name = "canvas" THEN parseCanvas(st, canvas, FALSE)
  ELSE parseValueNode(st, canvas)

\* pulley.loopTag goes on from a, the state the callback left at st: a
\* callback that twice in a row consumes nothing is called for ever
DefsAgain(st, a, canvas, still) ==
  IF ~Ok(a) THEN a
  ELSE IF a.pos = st.pos /\ still THEN Hang(a)
  ELSE LoopDefs(a, canvas, a.pos = st.pos)

\* lines 169-176: the children of defs
LoopDefs(st, canvas, still) ==
  IF ~Ok(st) THEN st
  ELSE IF Peek(st).type = "closetag" THEN LoopClose(st, Null)
  ELSE DefsAgain(st, DefsChild(st, canvas), canvas, still)

\* parseCanvasDefs(pulley, canvas); the earlier draft has only a stub of it
parseCanvasDefs(st, canvas) ==
  IF ~Ok(st) THEN st
  ELSE IF st.draft = "load-sif" THEN Throw(st, "Error: defs not implemented")
  ELSE LoopDefs(loopOpen(st, "defs"), canvas, FALSE)

(***************************************************************************)
(* parseKeyframe, parseMetaInto, parseLayer: load_sif.js 437-478.          *)
(***************************************************************************)
S_background_first_color ==
  <<"b", "a", "c", "k", "g", "r", "o", "u", "n", "d", "_", "f", "i", "r", "s", "t", "_",
    "c", "o", "l", "o", "r">>

S_background_second_color ==
  <<"b", "a", "c", "k", "g", "r", "o", "u", "n", "d", "_", "s", "e", "c", "o", "n", "d",
    "_", "c", "o", "l", "o", "r">>

S_background_size ==
  <<"b", "a", "c", "k", "g", "r", "o", "u", "n", "d", "_", "s", "i", "z", "e">>

S_grid_color == <<"g", "r", "i", "d", "_", "c", "o", "l", "o", "r">>

S_grid_size == <<"g", "r", "i", "d", "_", "s", "i", "z", "e">>

S_jack_offset == <<"j", "a", "c", "k", "_", "o", "f", "f", "s", "e", "t">>

\* content.replace(/,/g, '.')
CommasToDots(t) == [i \in 1..Len(t) |-> IF t[i] = "," THEN "." ELSE t[i]]

parseKeyframe(st, canvas) ==
  LET tag    == Peek(st)
      a      == expectName(st, "keyframe", "opentag")
      time   == tag.attributes["time"]
      active == tag.attributes["active"]
      b      == nextText(a)
  IN  IF ~Ok(a) THEN a
      ELSE IF time = Undefined THEN Throw(a, "Error: <keyframe> is missing attribute time")
      ELSE Ret(expectName(b, "keyframe", "closetag"),
               [ time |-> parseTime(time, st.heap[canvas].fps).value,
                 active |-> active # S_false /\ active # S_0, text |-> b.val ])

parseMetaInto(st, canvas) ==
  LET tag     == Peek(st)
      a       == expectName(st, "meta", "opentag")
      name    == tag.attributes["name"]
      content == tag.attributes["content"]
      comma   == name \in { S_background_first_color, S_background_second_color,
                            S_background_size, S_grid_color, S_grid_size, S_jack_offset }
      b       == [a EXCEPT !.heap[canvas].metadata =
                    {e \in @ : e[1] # name}
                    \cup {<<name, IF comma THEN CommasToDots(content) ELSE content>>}]
  IN  IF ~Ok(a) THEN a
      ELSE IF name = Undefined \/ content = Undefined
      THEN Throw(a, "Error: <meta> is missing an attribute")
      ELSE expectName(b, "meta", "closetag")

parseLayer(st, canvas) == Throw(st, "Error: layer not implemented")

(***************************************************************************)
(* parseCanvas: src/src/load_sif.js 36-166, and the earlier draft          *)
(* src/src/load-sif.js 29-157 where it differs.                            *)
(***************************************************************************)
\* Canvas.childCanvas(parent, id), from the specification: a canvas linked
\* to its parent and keyed by id.  What it does with an undefined parent
\* the specification does not say: it throws on the first read of the
\* parent, or, lenient, returns a canvas that hangs on no parent.
CanvasChildCanvas(st, parent, id) ==
  IF ~Ok(st) THEN st
  ELSE IF parent = NoObject
  THEN IF st.lenientChild THEN Alloc(st, [CanvasCreate EXCEPT !.id = id])
       ELSE Throw(st, "TypeError: parent is undefined")
  ELSE Alloc([st EXCEPT !.heap[parent].children = @ \cup {<<id, Len(st.heap) + 1>>}],
             [CanvasCreate EXCEPT !.id = id, !.parent = parent, !.linked = TRUE])

\* lines 44-51: line 50 passes the local canvas, which is still undefined
\* there, where the parent is meant
NewCanvas(st, parent, inline) ==
  IF inline \/ parent = NoObject
  THEN Alloc(st, [CanvasCreate EXCEPT
                    !.parent = IF st.draft = "load_sif" THEN parent ELSE NoObject])
  ELSE CanvasChildCanvas(st, NoObject, Peek(st).attributes["id"])

\* lines 53-56; the earlier draft (45-47) reads the unbound name guid when
\* the attribute is given, and else registers nothing
\* the canvas takes its reference id and the registry is left alone
RegisterCanvas_GuidOnly(st, c, inline) ==
  LET attrs == Peek(st).attributes
      given == TruthyStr(attrs["guid"])
  IN  IF ~Ok(st) \/ st.draft = "load-sif" THEN st
      ELSE [st EXCEPT !.gen = IF given THEN @ ELSE @ + 1,
                      !.heap[c].guid = IF given THEN GuidVal(attrs["guid"])
                                       ELSE GuidGenerate(st.gen)]

RegisterCanvas(st, c, inline) ==
  LET attrs == Peek(st).attributes
      given == TruthyStr(attrs["guid"])
      guid  == IF given THEN GuidVal(attrs["guid"]) ELSE GuidGenerate(st.gen)
      a     == [st EXCEPT !.gen = IF given THEN @ ELSE @ + 1, !.heap[c].guid = guid,
                          !.reg = GuidSet(@, guid, c)]
  IN  IF ~Ok(st) THEN st
      ELSE IF st.draft = "load-sif"
      THEN IF given THEN Throw(st, "ReferenceError: guid is not defined") ELSE st
      ELSE IF ~inline /\ TruthyStr(attrs["id"]) THEN [a EXCEPT !.heap[c].id = attrs["id"]]
      ELSE a

\* lines 60-73: width and height
SizeAttribute(st, c, name) ==
  LET text == Peek(st).attributes[name]
      n    == ParseInt(text)
  IN  IF ~Ok(st) \/ ~TruthyStr(text) THEN st
      ELSE IF RLess(n, Num(1))
      THEN Throw(st, "Error: Canvas with width or height less than one is not allowed")
      ELSE [st EXCEPT !.heap[c][name] = n]

\* lines 57-59 and 74-99: version, fps, the times, view-box.  The
\* attributes xres, yres, antialias, bgcolor and focus are left out: no
\* document of the model carries them.
VersionAttribute(st, c) ==
  LET text == Peek(st).attributes["version"]
  IN  IF ~Ok(st) \/ ~TruthyStr(text) THEN st ELSE [st EXCEPT !.heap[c].version = text]

FpsAttribute(st, c) ==
  LET text == Peek(st).attributes["fps"]
  IN  IF ~Ok(st) \/ ~TruthyStr(text) THEN st ELSE [st EXCEPT !.heap[c].fps = ParseFloat(text)]

\* lines 83-88: timeStart from begin-time || start-time, timeEnd from end-time
TimeAttribute(st, c, text, field) ==
  IF ~Ok(st) \/ ~TruthyStr(text) THEN st
  ELSE [st EXCEPT !.heap[c][field] = parseTime(text, st.heap[c].fps).value]

ViewBoxAttribute(st, c) ==
  LET text   == Peek(st).attributes["view-box"]
      values == Split(text, " ")
  IN  IF ~Ok(st) \/ ~TruthyStr(text) THEN st
      ELSE IF Len(values) # 4 THEN Throw(st, "Error: view-box has 4 parameters")
      ELSE [st EXCEPT !.heap[c].viewBox = [i \in 1..4 |-> ParseFloat(values[i])]]

OtherAttributes(st, c) ==
  LET attrs == Peek(st).attributes
      begin == IF TruthyStr(attrs["begin-time"]) THEN attrs["begin-time"] ELSE attrs["start-time"]
  IN  ViewBoxAttribute(
        TimeAttribute(
          TimeAttribute(FpsAttribute(VersionAttribute(st, c), c), c, begin, "timeStart"),
          c, attrs["end-time"], "timeEnd"),
        c)

\* line 137: a is the state after parseKeyframe
AddParsedKeyframe(a, c) == IF Ok(a) THEN CanvasAddKeyframe(a, c, a.val) ELSE a

KeyframeChild_FatalIfInline(st, c, inline) ==
  IF inline THEN Throw(st, "Error: Inline canvases can't have keyframes!")
  ELSE AddParsedKeyframe(parseKeyframe(st, c), c)

\* lines 131-139
KeyframeChild(st, c, inline) ==
  IF inline THEN skipTag(st) ELSE AddParsedKeyframe(parseKeyframe(st, c), c)

\* lines 117-162: one child of the canvas
CanvasChild(st, c, inline) ==
  LET name == Peek(st).name
  IN  CASE name = "defs" ->
             IF inline THEN Throw(st, "Error: Inline canvases can't have defs!")
             ELSE parseCanvasDefs(st, c)
        [] name = "bones" -> skipTag(st)
        [] name = "keyframe" -> KeyframeChild(st, c, inline)
        [] name = "meta" -> IF inline THEN skipTag(st) ELSE parseMetaInto(st, c)
        [] name \in {"name", "desc", "author"} ->
             LET a == nextText(expectName(st, name, "opentag"))
             IN  IF ~Ok(a) THEN a
                 ELSE expectName([a EXCEPT !.heap[c][name] = a.val], name, "closetag")
        [] name = "layer" -> parseLayer(st, c)
        [] OTHER -> Throw(st, "Error: Unexpected element in <canvas>")

\* lines 116-163: the children of the canvas
LoopCanvas(st, c, inline) ==
  IF ~Ok(st) THEN st
  ELSE IF Peek(st).type = "closetag" THEN LoopClose(st, Null)
  ELSE LoopCanvas(CanvasChild(check(st, "opentag"), c, inline), c, inline)

parseCanvasBody(st0, parent, inline) ==
  LET st    == checkName(st0, "canvas", "opentag")
      attrs == Peek(st).attributes
      given == TruthyStr(attrs["guid"])
      new   == NewCanvas(st, parent, inline)
      c     == new.val.id
      a     == RegisterCanvas(new, c, inline)
      b     == SizeAttribute(SizeAttribute(a, c, "width"), c, "height")
  IN  IF ~Ok(st) THEN st
      ELSE IF given /\ st.draft = "load-sif" THEN Throw(st, "ReferenceError: guid is not defined")
      ELSE IF given /\ GuidExists(st.reg, GuidVal(attrs["guid"]))
      THEN Ret(skipTag(st), Ref(GuidGet(st.reg, GuidVal(attrs["guid"]))))
      ELSE IF ~Ok(new) THEN new
      ELSE Ret(LoopCanvas(loopOpen(OtherAttributes(b, c), "canvas"), c, inline), Ref(c))

\* parseCanvas(pulley, parent, inline), entered in the history of the calls
parseCanvas(st0, parent, inline) ==
  IF ~Ok(st0) THEN st0
  ELSE Logged("parseCanvas", st0, parseCanvasBody(st0, parent, inline), parent)

(***************************************************************************)
(* The documents of the model.                                             *)
(***************************************************************************)
With(attrs, name, text) == [attrs EXCEPT ![name] = text]

Leaf(name, text) == Element(name, NoAttrs, <<TextNode(text)>>)

VectorElement(attrs) == Element("vector", attrs, Leaf("x", <<"1">>) \o Leaf("y", <<"2", ".", "5">>))

ColorElement(attrs) ==
  Element("color", attrs, Leaf("r", <<"1">>) \o Leaf("g", <<"0">>) \o Leaf("b", <<"0">>)
                          \o Leaf("a", <<"1">>))

RealElement(attrs) == Element("real", With(attrs, "value", <<"1", ".", "5">>), <<>>)

AngleElement(name, attrs) == Element(name, With(attrs, "value", <<"9", "0">>), <<>>)

Wrapped(name, content) == Element(name, NoAttrs, content)

\* the value-node elements, by kind; attrs are the attributes of the element
ValueElement(kind, attrs) ==
  CASE kind = "real" -> RealElement(attrs)
    [] kind = "real-novalue" -> Element("real", attrs, <<>>)
    [] kind = "integer" -> Element("integer", With(attrs, "value", <<"7">>), <<>>)
    [] kind = "time" -> Element("time", With(attrs, "value", <<"5", "s">>), <<>>)
    [] kind = "bool" -> Element("bool", With(attrs, "value", S_1), <<>>)
    [] kind = "bool-bad" -> Element("bool", With(attrs, "value", <<"m">>), <<>>)
    [] kind = "radians" -> AngleElement("radians", attrs)
    [] kind = "string" -> Element("string", attrs, <<TextNode(<<"h", "i">>)>>)
    [] kind = "vector" -> VectorElement(attrs)
    [] kind = "vector-z" -> Element("vector", attrs, Leaf("z", <<"1">>))
    [] kind = "color" -> ColorElement(attrs)
    [] kind = "segment" ->
         Element("segment", attrs,
                 Wrapped("p1", VectorElement(NoAttrs)) \o Wrapped("t1", VectorElement(NoAttrs))
                 \o Wrapped("p2", VectorElement(NoAttrs)) \o Wrapped("t2", VectorElement(NoAttrs)))
    [] kind = "segment-p1" -> Element("segment", attrs, Wrapped("p1", VectorElement(NoAttrs)))
    [] kind = "segment-empty" -> Element("segment", attrs, <<>>)
    [] kind = "segment-real" -> Element("segment", attrs, Wrapped("p1", RealElement(NoAttrs)))
    [] kind = "segment-zz" -> Element("segment", attrs, Wrapped("zz", VectorElement(NoAttrs)))
    [] kind = "gradient" ->
         Element("gradient", attrs, ColorElement(With(NoAttrs, "pos", <<"0", ".", "5">>)))
    [] kind = "transformation" ->
         Element("transformation", attrs,
                 Wrapped("offset", VectorElement(NoAttrs))
                 \o Wrapped("angle", AngleElement("angle", NoAttrs)))
    [] kind = "list" -> Element("list", attrs, RealElement(NoAttrs) \o VectorElement(NoAttrs))
    [] kind = "list-empty" -> Element("list", attrs, <<>>)
    [] kind = "list-placeholder" -> Element("list", attrs, Element("bline_point", NoAttrs, <<>>))
    [] kind = "list-unknown" -> Element("list", attrs, Element("foo", NoAttrs, <<>>))
    [] OTHER -> Element(kind, attrs, Element("waypoint", NoAttrs, <<>>))

LiteralKinds ==
  { "real", "real-novalue", "integer", "time", "bool", "bool-bad", "radians", "string",
    "vector", "vector-z", "color", "segment", "segment-p1", "segment-empty", "segment-real",
    "segment-zz", "gradient", "transformation", "list", "list-empty", "list-placeholder",
    "list-unknown" }

\* elements that are no value literal: their kind is their tag name
OtherKinds ==
  { "hermite", "animated", "static_list", "dynamic_list", "bline", "wplist", "dilist",
    "weighted_average", "linear", "foo", "bline_point", "guid", "width_point", "dash_item" }

StaticTexts == {Undefined, S_0, S_1, S_true, S_false, <<>>, <<"2">>}

InterpolationTexts ==
  {Undefined, S_halt, S_constant, S_linear, S_manual, S_auto, S_clamped, <<"t", "c", "b">>}

Defs(content) == Element("defs", NoAttrs, content)

Canvas(attrs, content) == Element("canvas", attrs, content)

\* one definition of every kind, with every static and interpolation text
ModifierDocuments ==
  { Canvas(NoAttrs, Defs(ValueElement(k, With(With(NoAttrs, "static", s), "interpolation", i)))) :
      k \in LiteralKinds \cup OtherKinds, s \in StaticTexts, i \in InterpolationTexts }

\* most definitions in one defs block of the sharing documents
MaxDefs == 2

SharedKinds == {"real", "real-novalue", "hermite"}

GuidTexts == {Undefined, <<"1">>, <<"2">>}

SharedElements ==
  { ValueElement(k, With(With(NoAttrs, "guid", g), "id", d)) :
      k \in SharedKinds, g \in GuidTexts, d \in {Undefined, <<"a">>} }

RECURSIVE Concatenations(_, _)
Concatenations(S, n) ==
  IF n = 0 THEN {<<>>}
  ELSE LET shorter == Concatenations(S, n - 1)
       IN  shorter \cup {a \o b : a \in shorter, b \in S}

\* definitions that share reference ids, under a root canvas with or
\* without a reference id of its own
SharingDocuments ==
  { Canvas(With(NoAttrs, "guid", g), Defs(c)) :
      g \in {Undefined, <<"3">>}, c \in Concatenations(SharedElements, MaxDefs) }

\* longest width text enumerated exhaustively over SizeAlphabet
MaxSizeLen == 2

SizeAlphabet == {"0", "1", "-", "a", " "}

SizeTexts == {Undefined} \cup StringsUpTo(SizeAlphabet, MaxSizeLen)

KeyframeElement(time) == Element("keyframe", With(NoAttrs, "time", time), <<TextNode(<<"k">>)>>)

\* a root canvas with its size attributes
SizeDocuments ==
  { Canvas(With(With(With(NoAttrs, "width", w), "height", h), "fps", f), c) :
      w \in SizeTexts, h \in {Undefined, <<"2">>, <<"0">>, <<"a">>},
      f \in {Undefined, <<"2", "5">>},
      c \in {<<>>, KeyframeElement(<<"1", "0", "f">>)} }

\* the children a canvas can hold
CanvasChildren ==
  { Defs(<<>>), Defs(RealElement(NoAttrs)), Element("bones", NoAttrs, Leaf("bone", <<"b">>)),
    KeyframeElement(<<"5", "s">>), KeyframeElement(Undefined),
    Element("meta", With(With(NoAttrs, "name", S_grid_size), "content", <<"1", ",", "5">>), <<>>),
    Element("meta", NoAttrs, <<>>),
    Leaf("name", <<"n">>), Leaf("desc", <<"d">>), Element("layer", NoAttrs, <<>>),
    Element("foo", NoAttrs, <<>>) }

\* most children of a canvas in the children documents
MaxChildren == 2

ChildrenDocuments ==
  { Canvas(With(With(NoAttrs, "guid", g), "width", w), c) :
      g \in {Undefined, <<"1">>}, w \in {Undefined, <<"1">>, <<"0">>},
      c \in Concatenations(CanvasChildren, MaxChildren) }

\* canvases nested in defs: a child with the reference id of its root, of a
\* sibling or of its own, holding a definition, a keyframe or a child
NestedDocuments ==
  { Canvas(With(NoAttrs, "guid", g), Defs(Canvas(With(With(NoAttrs, "guid", h), "id", d), c) \o e)) :
      g \in {Undefined, <<"1">>}, h \in {Undefined, <<"1">>, <<"2">>}, d \in {Undefined, <<"a">>},
      c \in { <<>>, Defs(RealElement(With(NoAttrs, "guid", <<"1">>))),
              KeyframeElement(<<"5", "s">>), Defs(Canvas(With(NoAttrs, "guid", <<"1">>), <<>>)) },
      e \in {<<>>, RealElement(With(NoAttrs, "guid", <<"1">>)),
             Canvas(With(NoAttrs, "guid", <<"2">>), Leaf("name", <<"n">>))} }

Documents ==
  ModifierDocuments \cup SharingDocuments \cup SizeDocuments \cup ChildrenDocuments
  \cup NestedDocuments

Drafts == {"load_sif", "load-sif"}

(***************************************************************************)
(* The calls.  call is the call made (fn is "" before it), parsed the state  *)
(* the parser is left in.                                                  *)
(***************************************************************************)
\* the state of the parser at the entry of loadSif: a tag reader on the
\* input, an empty registry
Entry(evs, draft, lenient) ==
  [ evs |-> evs, pos |-> 0, reg |-> {}, heap |-> <<>>, gen |-> 0, log |-> <<>>,
    status |-> "ok", err |-> "", val |-> Null, draft |-> draft, lenientChild |-> lenient ]

\* loadSif(file): lines 26-33
loadSif(st) == parseCanvas(st, NoObject, FALSE)

\* the state in which line 212 calls parseCanvas(pulley, canvas, true): the
\* owning canvas exists and is registered under a generated id
InlineEntry(evs, draft) ==
  [ Entry(evs, draft, FALSE) EXCEPT
      !.heap = <<[CanvasCreate EXCEPT !.guid = GuidGenerate(0)]>>,
      !.reg = {<<GuidGenerate(0), 1>>}, !.gen = 1 ]

NoCall ==
  [ fn |-> "", parent |-> NoObject, inline |-> FALSE ]

\* no call of parseTime and none of the document parser has been made
Init ==
  /\ tin = <<>>
  /\ tfps = Num(0)
  /\ stamp = <<>>
  /\ fps = Num(0)
  /\ pos = 0
  /\ value = Num(0)
  /\ passes = 0
  /\ tpc = "idle"
  /\ tret = Num(0)
  /\ terr = FALSE
  /\ call = NoCall
  /\ parsed = Entry(<<>>, "load_sif", FALSE)

\* the calls of parseTime
SpecTime == Init /\ [][TimeNext]_vars

\* loadSif(file) on a document, in either draft
LoadSif ==
  /\ call.fn = ""
  /\ \E d \in Documents, draft \in Drafts, lenient \in BOOLEAN :
       /\ lenient => d \in NestedDocuments
       /\ call' = [fn |-> "loadSif", parent |-> NoObject, inline |-> FALSE]
       /\ parsed' = loadSif(Entry(d, draft, lenient))
  /\ UNCHANGED tvars

\* parseCanvas(pulley, canvas, true), the call of line 212
ParseInlineCanvas ==
  /\ call.fn = ""
  /\ \E d \in ChildrenDocuments \cup SizeDocuments, draft \in Drafts :
       /\ call' = [fn |-> "parseCanvas", parent |-> 1, inline |-> TRUE]
       /\ parsed' = parseCanvas(InlineEntry(d, draft), 1, TRUE)
  /\ UNCHANGED tvars

Next == LoadSif \/ ParseInlineCanvas

\* the calls of the document parser
Spec == Init /\ [][Next]_vars

(***************************************************************************)
(* Claims about parseTime.                                                 *)
(***************************************************************************)
UnitCodes == {"h", "m", "s", "f"}

\* a numeric run: an optional '-', digits with at most one '.', a digit at least
IsRun(r) ==
  LET body == IF r # <<>> /\ r[1] = "-" THEN Tail(r) ELSE r
  IN  /\ \A i \in 1..Len(body) : body[i] \in Digits \cup {"."}
      /\ Cardinality({i \in 1..Len(body) : body[i] = "."}) <= 1
      /\ \E i \in 1..Len(body) : body[i] \in Digits

FirstUnit(s) == CHOOSE i \in 1..Len(s) : s[i] \in UnitCodes /\ \A j \in 1..(i - 1) : s[j] \notin UnitCodes

\* s is made only of numeric runs, each followed by a unit code
RECURSIVE IsUnitString(_)
IsUnitString(s) ==
  \/ s = <<>>
  \/ /\ \E i \in 1..Len(s) : s[i] \in UnitCodes
     /\ IsRun(SubSeq(s, 1, FirstUnit(s) - 1))
     /\ IsUnitString(SubSeq(s, FirstUnit(s) + 1, Len(s)))

UnitAmount(code, amount, f) ==
  CASE code = "h" -> RMul(amount, Num(3600))
    [] code = "m" -> RMul(amount, Num(60))
    [] code = "s" -> amount
    [] code = "f" -> IF Truthy(f) THEN RDiv(amount, f) ELSE Num(0)

\* the sum over the runs of a unit string, f the fps (0 when unknown)
RECURSIVE UnitSum(_, _)
UnitSum(s, f) ==
  IF s = <<>> THEN Num(0)
  ELSE LET i == FirstUnit(s)
       IN  RAdd(UnitAmount(s[i], ToNumber(SubSeq(s, 1, i - 1)), f),
                UnitSum(SubSeq(s, i + 1, Len(s)), f))

Returned(s, f, r) == tpc = "done" /\ tin = s /\ tfps = f => ~terr /\ tret = r

\* C6: for a time string made only of numeric runs, each followed by a unit
\* code h, m, s or f, parseTime returns the sum over the runs of amount*3600
\* (h), amount*60 (m), amount (s) and amount/fps (f, fps known); with fps
\* unknown an f run adds 0 and is no error.  So "5s" gives 5, "2m30s" 150,
\* "1h" 3600, "10f" at 25 fps 2/5 and "10f" without fps 0.
C6_UnitSum ==
  /\ tpc = "done" /\ IsUnitString(tin) => ~terr /\ tret = UnitSum(tin, OrZero(tfps))
  /\ Returned(<<"5", "s">>, Num(0), Num(5))
  /\ Returned(<<"2", "m", "3", "0", "s">>, Num(0), Num(150))
  /\ Returned(<<"1", "h">>, Num(0), Num(3600))
  /\ Returned(<<"1", "0", "f">>, Num(25), Rat(2, 5))
  /\ Returned(<<"1", "0", "f">>, Num(0), Num(0))

\* "1.5h2f" at 24 fps has returned 5400 + 2/24
C6_Witness ==
  /\ tpc = "done"
  /\ tin = <<"1", ".", "5", "h", "2", "f">>
  /\ tfps = Num(24)
  /\ tret = Rat(64801, 12)

\* a field of the colon notation as a number: +field || 0
FieldNum(x) == OrZero(ToNumber(x))

\* what C7 states for the fields of a colon-separated string
ColonExpected(fields, f) ==
  LET sec    == fields[3]
      dot    == IndexOf(sec, ".")
      whole  == IF dot >= 0 THEN SubSeq(sec, 1, dot) ELSE sec
      hasFr  == Len(fields) >= 4 \/ dot >= 0
      frames == IF Len(fields) >= 4 THEN fields[4] ELSE Substr(sec, dot + 1)
      hms    == RAdd(RAdd(RMul(FieldNum(fields[1]), Num(3600)), RMul(FieldNum(fields[2]), Num(60))),
                     FieldNum(whole))
  IN  IF hasFr /\ Truthy(f) THEN RAdd(hms, RDiv(FieldNum(frames), f)) ELSE hms

\* C7: for a colon-separated time string with at least 3 fields H:M:S,
\* parseTime returns H*3600 + M*60 + S, plus the 4th field divided by fps when
\* there is a 4th field and fps is known; the digits after a '.' in the seconds
\* field are cut off the seconds and, when no 4th field was given, are the 4th
\* field: a frame count, not a fraction of a second ("00:01:30.500" at 24 fps
\* is 90 + 500/24).
C7_ColonFields ==
  /\ tpc = "done" /\ Len(Split(ToLowerCase(tin), ":")) >= 3
       => ~terr /\ tret = ColonExpected(Split(ToLowerCase(tin), ":"), OrZero(tfps))
  /\ Returned(<<"0", "0", ":", "0", "1", ":", "3", "0", ".", "5", "0", "0">>, Num(24),
              RAdd(Num(90), Rat(500, 24)))

\* "00:01:30.500" at 24 fps has returned 90 + 500/24 = 665/6
C7_Witness ==
  /\ tpc = "done"
  /\ tin = <<"0", "0", ":", "0", "1", ":", "3", "0", ".", "5", "0", "0">>
  /\ tfps = Num(24)
  /\ tret = Rat(665, 6)

Log == parsed.log

Calls(fn) == {i \in 1..Len(Log) : Log[i].fn = fn}

\* the registry key of a value node: line 184
NodeKey(e) ==
  GuidXor(GuidVal(e.attributes["guid"]), parsed.heap[CanvasGetRoot(parsed.heap, e.canvas)].guid)

\* entry j is a call on an element with the reference id of the element of
\* the earlier call i, under the same root canvas, and call i returned normally
SameGuid(i, j) ==
  /\ i < j /\ Log[j].log0 >= i
  /\ TruthyStr(Log[i].attributes["guid"])
  /\ Log[i].attributes["guid"] = Log[j].attributes["guid"]
  /\ CanvasGetRoot(parsed.heap, Log[i].canvas) = CanvasGetRoot(parsed.heap, Log[j].canvas)
  /\ Log[i].status = "ok"

\* C1: of two value-node elements with one guid under one root canvas, the
\* first parsed normally, parseValueNode skips the whole subtree of the second
\* without parsing any of it (no nested call, no new object) and returns the
\* very node it returned for the first.
C1_SecondIsSkipped ==
  \A i, j \in Calls("parseValueNode") :
    SameGuid(i, j) =>
      /\ Log[j].status = "ok"
      /\ Log[j].ret = Log[i].ret
      /\ Log[j].ret = Ref(GuidGet(Log[i].reg1, NodeKey(Log[i])))
      /\ Log[j].end = SubtreeEnd(parsed.evs, Log[j].at + 1, 1)
      /\ Log[j].log1 = Log[j].log0
      /\ Log[j].heap1 = Log[j].heap0

\* a later element shares the guid of an earlier one and has no value
\* attribute, so that parsing it would fail: it was skipped
C1_Witness ==
  \E i, j \in Calls("parseValueNode") :
    /\ SameGuid(i, j)
    /\ Log[j].at > Log[i].at
    /\ Log[j].name = "real" /\ ~TruthyStr(Log[j].attributes["value"])
    /\ Log[j].status = "ok" /\ Log[j].ret = Log[i].ret
    /\ parsed.status = "ok"

\* C2: parseValue returns null, and raises no error, for every tag name
\* that is no value literal: the five placeholder names and every name that
\* is not one of the literal names.
C2_NullForNonLiterals ==
  \A i \in Calls("parseValue") :
    Log[i].name \notin LiteralNames => Log[i].status = "ok" /\ Log[i].ret.k = "null"

\* the call of parseValueNode found its element in no registry entry
Fresh(e) == ~(TruthyStr(e.attributes["guid"]) /\ GuidExists(e.reg0, NodeKey(e)))

\* the kind of the node a call returned
KindOf(e) == parsed.heap[e.ret.id].kind

\* C3: for an element that is no literal value parseValueNode dispatches on
\* the tag name alone: to the animated, static-list or dynamic-list parser
\* by the table, else to the linkable-node parser; any other name but canvas
\* is a fatal error.
C3_DispatchByName ==
  \A i \in Calls("parseValueNode") :
    LET e == Log[i]
    IN  Fresh(e) /\ e.name \notin LiteralNames =>
          /\ ParserTable(e.name) # "" => e.status = "ok" /\ KindOf(e) = ParserTable(e.name)
          /\ e.name \in LinkableNames => e.status = "ok" /\ KindOf(e) = "linkable"
          /\ ParserTable(e.name) = "" /\ e.name \notin LinkableNames \cup {"canvas"}
               => e.status = "error"

RECURSIVE ChildrenFrom(_, _)
\* the positions of the children of an element, from position p on
ChildrenFrom(evs, p) ==
  IF p >= Len(evs) \/ evs[p + 1].type # "opentag" THEN <<>>
  ELSE <<p>> \o ChildrenFrom(evs, SubtreeEnd(evs, p + 1, 1))

\* the positions of the children of the canvas element the call was made on
Kids == ChildrenFrom(parsed.evs, 1)

KidName(k) == parsed.evs[Kids[k] + 1].name

\* the children an inline canvas reads or skips without an error
HarmlessInline == {"keyframe", "bones", "meta", "name", "desc", "author"}

InlineCall == call.fn = "parseCanvas" /\ call.inline

\* the call got as far as the children of its element
ReachedChildren == ~(parsed.status = "error" /\ parsed.pos = 0)

\* C4: in parseCanvas with inline = true a keyframe child is skipped: the
\* parse does not stop in it, no canvas gains a keyframe, and a canvas whose
\* children are all harmless is parsed to its end; a defs child that is
\* reached aborts the parse with an error.
C4_InlineKeyframeAndDefs ==
  InlineCall =>
    /\ \A k \in 1..Len(Kids) :
         KidName(k) = "keyframe" =>
           ~(parsed.status # "ok" /\ parsed.pos >= Kids[k]
             /\ parsed.pos < SubtreeEnd(parsed.evs, Kids[k] + 1, 1))
    /\ \A c \in 1..Len(parsed.heap) : parsed.heap[c].keyframes = <<>>
    /\ (ReachedChildren /\ \A k \in 1..Len(Kids) : KidName(k) \in HarmlessInline)
         => parsed.status = "ok" /\ parsed.pos = Len(parsed.evs)
    /\ \A k \in 1..Len(Kids) :
         (/\ ReachedChildren /\ KidName(k) = "defs"
          /\ \A h \in 1..(k - 1) : KidName(h) \in HarmlessInline)
           => /\ parsed.status = "error" /\ parsed.pos = Kids[k]
              /\ parsed.err = "Error: Inline canvases can't have defs!"

\* an inline canvas with a keyframe before another child was parsed to its
\* end, in the earlier draft too
C4_Witness ==
  /\ InlineCall /\ parsed.draft = "load-sif"
  /\ Len(Kids) = 2 /\ KidName(1) = "keyframe" /\ KidName(2) = "name"
  /\ parsed.status = "ok"
  /\ parsed.heap[parsed.val.id].name = <<"n">>
  /\ parsed.heap[parsed.val.id].keyframes = <<>>

\* the canvas element of the call, and the canvas returned for it
RootTag == parsed.evs[1]

IsWholeAtLeastOne(n) == n[2] = 1 /\ n[1] >= 1

\* C5: whenever parseCanvas returns normally for an element with a width
\* (height) attribute, the width (height) of the canvas is an integer >= 1;
\* width="0" fails, width="1" succeeds.
C5_SizeAtLeastOne ==
  call.fn # "" =>
    /\ \A name \in {"width", "height"} :
         parsed.status = "ok" /\ TruthyStr(RootTag.attributes[name])
           => IsWholeAtLeastOne(parsed.heap[parsed.val.id][name])
    /\ RootTag.attributes["width"] = <<"0">> => parsed.status = "error"
    /\ (/\ RootTag.attributes["width"] = <<"1">> /\ Len(parsed.evs) = 2
        /\ RootTag.attributes["height"] = Undefined
        /\ RootTag.attributes["guid"] = Undefined /\ call.fn = "loadSif")
         => parsed.status = "ok" /\ parsed.heap[parsed.val.id].width = Num(1)

\* what the static and interpolation attributes stand for
StaticMeaning ==
  [t \in {Undefined, S_0, S_false} |-> FALSE] @@ [t \in {S_1, S_true} |-> TRUE]

InterpolationMeaning ==
  (Undefined :> "UNDEFINED") @@ (S_halt :> "HALT") @@ (S_constant :> "CONSTANT")
  @@ (S_linear :> "LINEAR") @@ (S_manual :> "MANUAL") @@ (S_clamped :> "CLAMPED")
  @@ (S_auto :> "TCB")

\* the value a call returned carries what its element's two attributes
\* stand for, both being valid
ModifiersRead(e) ==
  /\ e.attributes["static"] \in DOMAIN StaticMeaning
  /\ e.attributes["interpolation"] \in DOMAIN InterpolationMeaning
  /\ e.ret.static = StaticMeaning[e.attributes["static"]]
  /\ e.ret.interpolation = InterpolationMeaning[e.attributes["interpolation"]]

\* C9 as stated: every literal value parseValue returns, a list too, carries
\* the static flag and the interpolation mode its attributes stand for, and
\* none is returned when one of the two attributes is invalid.
C9_EveryLiteral ==
  \A i \in Calls("parseValue") :
    Log[i].name \in LiteralNames /\ Log[i].status = "ok" => ModifiersRead(Log[i])

\* C9, amended: every literal value but a list carries the static flag and
\* the interpolation mode its attributes stand for, and none is returned when
\* one of the two is invalid; a list is returned with the two as
\* ValueBase.create left them, whatever its attributes say.
C9_EveryLiteralButList ==
  \A i \in Calls("parseValue") :
    Log[i].status = "ok" =>
      /\ Log[i].name \in LiteralNames \ {"list"} => ModifiersRead(Log[i])
      /\ Log[i].name = "list" =>
           /\ Log[i].ret.static = ValueBaseCreate("list").static
           /\ Log[i].ret.interpolation = ValueBaseCreate("list").interpolation

\* a real with static="1" and interpolation="auto" came back static, TCB
C9_Witness ==
  \E i \in Calls("parseValue") :
    /\ Log[i].name = "real" /\ Log[i].status = "ok"
    /\ Log[i].attributes["static"] = S_1 /\ Log[i].attributes["interpolation"] = S_auto
    /\ Log[i].ret.static = TRUE /\ Log[i].ret.interpolation = "TCB"

\* the events of the element a call was made on
ElementAt(e) == SubSeq(parsed.evs, e.at + 1, SubtreeEnd(parsed.evs, e.at + 1, 1))

\* the vector of VectorElement
TheVector == [x |-> Num(1), y |-> Rat(5, 2)]

\* C10: parseValue on a segment whose children p1, t1, p2, t2 each hold a
\* well-formed vector returns the segment of these four vectors; a child
\* that holds no vector, or has another name, is an error.
C10_SegmentOfVectors ==
  \A i \in Calls("parseValue") :
    LET e == Log[i]
    IN  /\ (/\ ElementAt(e) = ValueElement("segment", e.attributes)
            /\ e.attributes["static"] \in DOMAIN StaticMeaning
            /\ e.attributes["interpolation"] \in DOMAIN InterpolationMeaning)
          => /\ e.status = "ok" /\ e.ret.type = "segment"
             /\ e.ret.data = [p1 |-> TheVector, t1 |-> TheVector,
                              p2 |-> TheVector, t2 |-> TheVector]
        /\ (\/ ElementAt(e) = ValueElement("segment-real", e.attributes)
            \/ ElementAt(e) = ValueElement("segment-zz", e.attributes))
          => e.status = "error"

\* the call Log[i] of parseCanvas found no registered canvas under the guid
\* of its element and created the canvas
CreatedCanvas(i) ==
  /\ Log[i].fn = "parseCanvas"
  /\ ~(/\ TruthyStr(Log[i].attributes["guid"])
       /\ GuidExists(Log[i].reg0, GuidVal(Log[i].attributes["guid"])))
  /\ Log[i].heap1 > Log[i].heap0
  /\ parsed.heap[Log[i].heap0 + 1].kind = "canvas"

\* the canvas the call Log[i] created
CanvasOf(i) == Log[i].heap0 + 1

\* the reference id of that canvas: the guid attribute, or a generated id
ReferenceId(i) ==
  IF TruthyStr(Log[i].attributes["guid"]) THEN GuidVal(Log[i].attributes["guid"])
  ELSE parsed.heap[CanvasOf(i)].guid

\* the calls made while the children of the element of Log[i] were parsed
Within(i) == (Log[i].log0 + 1)..Log[i].log1

ChildCall(i) ==
  /\ call.fn = "loadSif"
  /\ Log[i].fn = "parseCanvas"
  /\ Log[i].canvas # NoObject

\* C12: the canvas that parseCanvas creates when it has a parent and inline
\* is false is a child canvas of that parent: it is linked to the parent,
\* it has the id attribute of its element as its key, and the parent holds
\* it under that key.
C12_ChildLinkedToParent ==
  \A i \in Calls("parseCanvas") :
    ChildCall(i) /\ CreatedCanvas(i) =>
      /\ parsed.heap[CanvasOf(i)].linked
      /\ parsed.heap[CanvasOf(i)].parent = Log[i].canvas
      /\ parsed.heap[CanvasOf(i)].id = Log[i].attributes["id"]
      /\ <<Log[i].attributes["id"], CanvasOf(i)>> \in parsed.heap[Log[i].canvas].children

\* the call Log[j] of parseValueNode found the reference id of its element,
\* scoped to the root canvas, in the registry
Resolved(j) ==
  /\ Log[j].fn = "parseValueNode"
  /\ TruthyStr(Log[j].attributes["guid"])
  /\ GuidExists(Log[j].reg0, NodeKey(Log[j]))

\* the call Log[i] of parseValueNode parsed the node n and its element
\* carries the id
ParsedUnder(i, n, id) ==
  /\ Log[i].fn = "parseValueNode"
  /\ Log[i].attributes["id"] = id
  /\ Log[i].ret = Ref(n)
  /\ Log[i].heap0 < n /\ n <= Log[i].heap1

\* C13: a call of parseValueNode that finds the guid of its element in the
\* registry leaves the registry and the definitions map of every canvas as
\* they were, with or without an id attribute on the element; and every
\* entry of a definitions map was put there by the call that parsed its
\* node, for an element of that canvas carrying that id.
C13_ResolvedChangesNothing ==
  /\ \A j \in Calls("parseValueNode") :
       Resolved(j) =>
         /\ Log[j].status = "ok"
         /\ Log[j].reg1 = Log[j].reg0
         /\ Log[j].defs1 = Log[j].defs0
  /\ \A c \in 1..Len(parsed.heap) :
       parsed.heap[c].kind = "canvas" =>
         \A d \in parsed.heap[c].defs :
           \E i \in Calls("parseValueNode") :
             Log[i].canvas = c /\ ParsedUnder(i, d[2], d[1])

\* an element with an id attribute was resolved through its guid, and the
\* canvas that owns it holds nothing under that id: the element that was
\* parsed for the node had no id
C13_Witness ==
  /\ parsed.status = "ok"
  /\ \E j \in Calls("parseValueNode") :
       /\ Resolved(j)
       /\ TruthyStr(Log[j].attributes["id"])
       /\ \A d \in parsed.heap[Log[j].canvas].defs : d[1] # Log[j].attributes["id"]
====
